---- MODULE Spec2Model ----
(***************************************************************************)
(* A model of tools/isledecomp/isledecomp/bin.py: the class Bin, which     *)
(* parses a PE executable and reads it by virtual address.                 *)
(*                                                                         *)
(* The file on disk is the variable disk; the Bin object is the variable   *)
(* bin (the fields set in __init__); pc is the position of the caller in   *)
(* the object's life (constructed, inside __enter__, entered, failed,      *)
(* exited); ofs and reloc_addrs are the locals of _populate_relocations;   *)
(* ret is what the last call handed back to its caller.                    *)
(*                                                                         *)
(* Abstractions.  The MZ/PE/optional/section headers are kept as decoded   *)
(* fields of disk (struct.unpack of the fixed header records is not        *)
(* modelled byte by byte); the section contents, which is all that read()  *)
(* can reach, are the byte sequence disk.data indexed by file offset.      *)
(* The file cursor is not a variable: every file.read of the class is      *)
(* preceded by an absolute file.seek, so the cursor never decides          *)
(* anything.                                                               *)
(***************************************************************************)
EXTENDS Integers, Sequences, FiniteSets, TLC

VARIABLES disk, bin, pc, exc, ofs, reloc_addrs, ret

vars == <<disk, bin, pc, exc, ofs, reloc_addrs, ret>>

-----------------------------------------------------------------------------
(* Bounds of the model *)

\* How many relocation blocks the generated .reloc images hold at most.
MaxBlocks == 2

-----------------------------------------------------------------------------
(* Values *)

\* self.imagebase = None: a value no parsed image base of the model takes.
NoImageBase == -1

\* b"MZ" and b"PE"
MZ == <<77, 90>>
PE == <<80, 69>>

\* ".text" and ".reloc" as ASCII codes
TextName == <<46, 116, 101, 120, 116>>
RelocName == <<46, 114, 101, 108, 111, 99>>

\* F applied to the value of v, with v evaluated once.
With(v, F(_)) == CHOOSE y \in {F(x) : x \in {v}} : TRUE

Min(a, b) == IF a <= b THEN a ELSE b
Max(a, b) == IF a >= b THEN a ELSE b

\* struct.pack("8s", name.encode("ascii")): cut to 8 bytes, NUL-padded.
pack8s(name) == [i \in 1..8 |-> IF i <= Len(name) THEN name[i] ELSE 0]

\* struct.unpack("<I", b) and struct.unpack("<H", b)
unpack_I(b) == b[1] + 256 * b[2] + 65536 * b[3] + 16777216 * b[4]
unpack_H(b) == b[1] + 256 * b[2]

\* struct.iter_unpack("<H", b): the 2-byte entries of b, in order.
iter_unpack_H(b) == [k \in 1..(Len(b) \div 2) |-> unpack_H(SubSeq(b, 2 * k - 1, 2 * k))]

\* sorted(S) of a set of integers: the ascending list of its elements.
RECURSIVE sorted(_)
sorted(S) ==
    IF S = {} THEN <<>>
    ELSE LET m == CHOOSE x \in S : \A y \in S : x <= y
         IN  <<m>> \o sorted(S \ {m})

-----------------------------------------------------------------------------
(* Pure helpers of bin.py *)

section_name_match(section, name) == section.Name = pack8s(name)

section_contains_vaddr(section, imagebase, vaddr) ==
    LET debased == vaddr - imagebase
        o == debased - section.VirtualAddress
    IN  0 <= o /\ o < section.SizeOfRawData

\* next(filter(lambda section: section_contains_vaddr(...), sections), None)
\* as an index into the table, 0 for None.
first_containing(sections, imagebase, vaddr) ==
    LET hits == {i \in 1..Len(sections) :
                    section_contains_vaddr(sections[i], imagebase, vaddr)}
    IN  IF hits = {} THEN 0 ELSE CHOOSE i \in hits : \A j \in hits : i <= j

\* next(filter(lambda section: section_name_match(section, name), sections), None)
first_named(sections, name) ==
    LET hits == {i \in 1..Len(sections) : section_name_match(sections[i], name)}
    IN  IF hits = {} THEN 0 ELSE CHOOSE i \in hits : \A j \in hits : i <= j

-----------------------------------------------------------------------------
(* The file object *)

\* self.file.seek(raw_addr) followed by self.file.read(_size) on a file opened
\* "rb": up to _size bytes from raw_addr, fewer at the end of the file, all
\* the rest of the file for _size = -1.
file_read(raw_addr, _size) ==
    LET avail == Max(0, Len(disk.data) - raw_addr)
        cnt == IF _size = -1 THEN avail ELSE Min(_size, avail)
    IN  SubSeq(disk.data, raw_addr + 1, raw_addr + cnt)

-----------------------------------------------------------------------------
(* Methods of Bin.  b is the object (self); a method gives back the object  *)
(* as it leaves it, the exception it raises ("none" if it returns) and its  *)
(* result.                                                                  *)

\* A variant that trusts the cached section without testing that it
\* contains vaddr.
set_section_for_vaddr_trusting(b, vaddr) ==
    IF b.last_section # 0
    THEN b
    ELSE [b EXCEPT !.last_section = first_containing(b.sections, b.imagebase, vaddr)]

\* last_section is an index into self.sections, 0 for None.  The result 0
\* is the path that raises InvalidVirtualAddressError.
set_section_for_vaddr(b, vaddr) ==
    IF b.last_section # 0
       /\ section_contains_vaddr(b.sections[b.last_section], b.imagebase, vaddr)
    THEN b
    ELSE [b EXCEPT !.last_section = first_containing(b.sections, b.imagebase, vaddr)]

get_raw_addr(b, vaddr) ==
    With(set_section_for_vaddr(b, vaddr), LAMBDA b1 :
        IF b1.last_section = 0
        THEN [bin |-> b1, exc |-> "InvalidVirtualAddressError", val |-> 0]
        ELSE [bin |-> b1, exc |-> "none",
              val |-> vaddr - b1.imagebase
                      - b1.sections[b1.last_section].VirtualAddress
                      + b1.sections[b1.last_section].PointerToRawData])

\* A variant that does not clamp.
clamp_size_unclamped(section, size, raw_addr) == size

\* The clamp of read: min(size, PointerToRawData + SizeOfRawData - raw_addr)
clamp_size(section, size, raw_addr) ==
    Min(size, section.PointerToRawData + section.SizeOfRawData - raw_addr)

\* seek and read on self.file: None has no seek (AttributeError), a closed
\* file refuses (ValueError), and so does read for a size below -1.
read_at(b, raw_addr, _size) ==
    IF b.file = "none"
    THEN [bin |-> b, exc |-> "AttributeError", raw |-> raw_addr, bytes |-> <<>>]
    ELSE IF b.file = "closed" \/ _size < -1
    THEN [bin |-> b, exc |-> "ValueError", raw |-> raw_addr, bytes |-> <<>>]
    ELSE [bin |-> b, exc |-> "none", raw |-> raw_addr, bytes |-> file_read(raw_addr, _size)]

read(b, offset, size) ==
    With(set_section_for_vaddr(b, offset), LAMBDA b1 :
        IF b1.last_section = 0
        THEN [bin |-> b1, exc |-> "InvalidVirtualAddressError", raw |-> 0, bytes |-> <<>>]
        ELSE With(get_raw_addr(b1, offset), LAMBDA g :
                 read_at(g.bin, g.val,
                         clamp_size(g.bin.sections[g.bin.last_section], size, g.val))))

is_valid_vaddr(b, vaddr) == first_containing(b.sections, b.imagebase, vaddr) # 0

\* A variant that empties the set it lists.
get_relocated_addresses_draining(b) ==
    [bin |-> [b EXCEPT !.relocated_addrs = {}], list |-> sorted(b.relocated_addrs)]

\* sorted(self._relocated_addrs): a new list, the set is left as it is.
get_relocated_addresses(b) == [bin |-> b, list |-> sorted(b.relocated_addrs)]

is_relocated_addr(b, vaddr) == vaddr \in b.relocated_addrs

get_section_by_name(b, name) == first_named(b.sections, name)

\* A variant that takes the index as 0-based.
get_section_offset_by_index_0based(b, index) ==
    IF 0 <= index /\ index < Len(b.sections)
    THEN [exc |-> "none", val |-> b.imagebase + b.sections[index + 1].VirtualAddress]
    ELSE [exc |-> "IndexError", val |-> 0]

\* self.sections[index - 1] with Python's list indexing: a negative
\* subscript counts from the end; out of range raises IndexError.
get_section_offset_by_index(b, index) ==
    LET n == Len(b.sections)
        k == index - 1
    IN  IF 0 <= k /\ k < n
        THEN [exc |-> "none", val |-> b.imagebase + b.sections[k + 1].VirtualAddress]
        ELSE IF -n <= k /\ k < 0
        THEN [exc |-> "none", val |-> b.imagebase + b.sections[n + k + 1].VirtualAddress]
        ELSE [exc |-> "IndexError", val |-> 0]

get_section_offset_by_name(b, name) ==
    LET i == get_section_by_name(b, name)
    IN  IF i = 0
        THEN [exc |-> "SectionNotFoundError", val |-> 0]
        ELSE [exc |-> "none", val |-> b.imagebase + b.sections[i].VirtualAddress]

-----------------------------------------------------------------------------
(* The input files *)

pack_I(x) == <<x % 256, (x \div 256) % 256, (x \div 65536) % 256, (x \div 16777216) % 256>>
pack_H(x) == <<x % 256, (x \div 256) % 256>>

RECURSIVE Flatten(_)
Flatten(ss) == IF ss = <<>> THEN <<>> ELSE Head(ss) \o Flatten(Tail(ss))

\* The bytes of one relocation block: page base, declared size, entries.
BlockBytes(blk) ==
    pack_I(blk.page_base) \o pack_I(blk.block_size)
        \o Flatten([k \in 1..Len(blk.entries) |-> pack_H(blk.entries[k])])

\* Blocks a .reloc image is built of.  12320 = 0x3020 and 12324 = 0x3024 are
\* HIGHLOW entries for page offsets 32 and 36; 20 = 0x0014 is an entry with
\* type bits 0 and page offset 20.  Declared sizes 7 and 3 are smaller than
\* the header, 8 is a block without entries.
BlockChoices ==
    { [page_base |-> 0,  block_size |-> 12, entries |-> <<12320, 12324>>],
      [page_base |-> 16, block_size |-> 12, entries |-> <<20, 0>>],
      [page_base |-> 0,  block_size |-> 8,  entries |-> <<>>],
      [page_base |-> 0,  block_size |-> 7,  entries |-> <<>>],
      [page_base |-> 0,  block_size |-> 3,  entries |-> <<>>] }

BlockLists == UNION {[1..n -> BlockChoices] : n \in 0..MaxBlocks}

\* File offsets 0..31 hold the blocks, zero-filled (eight zero bytes are a
\* terminating header) or cut at 32; offsets 32..39 hold two 4-byte values,
\* 257 and 2.
FileData(blocks) ==
    LET raw == Flatten([k \in 1..Len(blocks) |-> BlockBytes(blocks[k])])
        fill == [k \in 1..32 |-> IF k <= Len(raw) THEN raw[k] ELSE 0]
    IN  fill \o pack_I(257) \o pack_I(2)

\* Where a section lies: R the block area, T the value area, X addresses
\* that begin in the middle of T mapped onto the start of the file, W the
\* whole file with a raw size that runs 8 bytes past its end.
LayoutR == [VirtualAddress |-> 0,  SizeOfRawData |-> 32, PointerToRawData |-> 0]
LayoutT == [VirtualAddress |-> 32, SizeOfRawData |-> 8,  PointerToRawData |-> 32]
LayoutX == [VirtualAddress |-> 36, SizeOfRawData |-> 8,  PointerToRawData |-> 0]
LayoutW == [VirtualAddress |-> 0,  SizeOfRawData |-> 48, PointerToRawData |-> 0]

Section(nm, l) ==
    [Name |-> pack8s(nm), VirtualAddress |-> l.VirtualAddress,
     SizeOfRawData |-> l.SizeOfRawData, PointerToRawData |-> l.PointerToRawData]

SectionChoices ==
    {Section(TextName, l) : l \in {LayoutT, LayoutX}}
        \cup {Section(RelocName, l) : l \in {LayoutR, LayoutW}}

\* Every table of up to three different sections, in every order.
SectionTables ==
    {<<>>} \cup {<<s>> : s \in SectionChoices}
           \cup {tb \in {<<s, t>> : s \in SectionChoices, t \in SectionChoices} :
                    tb[1] # tb[2]}
           \cup {tb \in {<<s, t, u>> : s \in SectionChoices, t \in SectionChoices,
                                       u \in SectionChoices} :
                    tb[1] # tb[2] /\ tb[1] # tb[3] /\ tb[2] # tb[3]}

ImageBases == {4096}

\* Files with a sound MZ/PE header, and files with a bad one.
GoodDisks ==
    { [mz_str |-> MZ, Signature |-> PE, ImageBase |-> ib, Sections |-> st,
       data |-> FileData(bl)] :
        ib \in ImageBases, st \in SectionTables, bl \in BlockLists }

BadDisks ==
    { [d EXCEPT !.mz_str = m, !.Signature = sg] :
        d \in { g \in GoodDisks : g.data = FileData(<<>>) /\ Len(g.Sections) = 0 },
        m \in {MZ, <<90, 77>>}, sg \in {PE, <<78, 69>>} } \ GoodDisks

-----------------------------------------------------------------------------
(* What a call hands back *)

NoRet ==
    [op |-> "none", vaddr |-> 0, size |-> 0, index |-> 0, name |-> <<>>,
     exc |-> "none", val |-> 0, ok |-> FALSE, list |-> <<>>, reads |-> <<>>]

\* One file.read that returned: the section it was resolved in, the file
\* offset it started at, the number of bytes it returned, the size asked for.
ReadRec(r, size) ==
    [section |-> r.bin.last_section, raw |-> r.raw, len |-> Len(r.bytes), size |-> size]

ReadsOf(r, size) == IF r.exc = "none" THEN <<ReadRec(r, size)>> ELSE <<>>

-----------------------------------------------------------------------------
(* Bin.__init__ *)

Init ==
    /\ disk \in GoodDisks \cup BadDisks
    /\ bin = [file |-> "none", imagebase |-> NoImageBase, sections |-> <<>>,
              last_section |-> 0, relocated_addrs |-> {}]
    /\ pc = "new"
    /\ exc = "none"
    /\ ofs = 0
    /\ reloc_addrs = <<>>
    /\ ret = NoRet

-----------------------------------------------------------------------------
(* Bin.__enter__, step by step.  A step is computed from the object and   *)
(* the locals; it gives the object, the locals and the position after it,   *)
(* and the file reads it made.                                              *)

\* An exception leaves __enter__: the locals are gone, the object stays as
\* it is.
Raise(b, e, reads) ==
    [bin |-> b, pc |-> "failed", exc |-> e, ofs |-> 0, reloc_addrs |-> <<>>, reads |-> reads]

Goto(b, p, o, ra, reads) ==
    [bin |-> b, pc |-> p, exc |-> "none", ofs |-> o, reloc_addrs |-> ra, reads |-> reads]

Step(n) ==
    \E m \in {n} :
        /\ bin' = m.bin
        /\ pc' = m.pc
        /\ exc' = m.exc
        /\ ofs' = m.ofs
        /\ reloc_addrs' = m.reloc_addrs
        /\ ret' = [NoRet EXCEPT !.op = "enter", !.exc = m.exc, !.reads = m.reads]
        /\ UNCHANGED disk

\* open(filename, "rb") and the MZ check
enter_open(b) ==
    IF disk.mz_str # MZ
    THEN Raise([b EXCEPT !.file = "open"], "MZHeaderNotFoundError", <<>>)
    ELSE Goto([b EXCEPT !.file = "open"], "mz_ok", 0, <<>>, <<>>)

EnterOpen == pc = "new" /\ Step(enter_open(bin))

\* The PE check, the image base and the section table
enter_headers(b) ==
    IF disk.Signature # PE
    THEN Raise(b, "PEHeaderNotFoundError", <<>>)
    ELSE Goto([b EXCEPT !.imagebase = disk.ImageBase, !.sections = disk.Sections],
              "populate", 0, <<>>, <<>>)

EnterHeaders == pc = "mz_ok" /\ Step(enter_headers(bin))

\* _populate_relocations up to the loop
populate_start(b) ==
    LET r == get_section_offset_by_name(b, RelocName)
    IN  IF r.exc # "none"
        THEN Raise(b, r.exc, <<>>)
        ELSE Goto(b, "walk", r.val, <<>>, <<>>)

PopulateStart == pc = "populate" /\ Step(populate_start(bin))

\* self.imagebase + page_base + (v & 0xFFF); 0xFFF + 1 = 4096
reloc_site(imagebase, page_base, v) == imagebase + page_base + (v % 4096)

\* A variant that steps over the entries only, not over the header.
advance_entries_only(o, block_size) == o + (block_size - 8)

\* ofs += block_size
advance(o, block_size) == o + block_size

\* The rest of a turn of the while loop, after the header was read (r1)
walk_entries(b, o, ra, r1) ==
    LET page_base == unpack_I(SubSeq(r1.bytes, 1, 4))
        block_size == unpack_I(SubSeq(r1.bytes, 5, 8))
    IN  IF block_size = 0
        THEN Goto(r1.bin, "sites", o, SortSeq(ra, LAMBDA x, y : x < y), ReadsOf(r1, 8))
        ELSE With(read(r1.bin, o + 8, block_size - 8), LAMBDA r2 :
                 IF r2.exc # "none"
                 THEN Raise(r2.bin, r2.exc, ReadsOf(r1, 8))
                 ELSE IF Len(r2.bytes) % 2 # 0
                 THEN Raise(r2.bin, "struct.error",
                            ReadsOf(r1, 8) \o ReadsOf(r2, block_size - 8))
                 ELSE With(SelectSeq(iter_unpack_H(r2.bytes), LAMBDA v : v # 0), LAMBDA nz :
                          Goto(r2.bin, "walk", advance(o, block_size),
                               ra \o [k \in 1..Len(nz) |->
                                         reloc_site(b.imagebase, page_base, nz[k])],
                               ReadsOf(r1, 8) \o ReadsOf(r2, block_size - 8))))

\* One turn of the while loop of _populate_relocations
walk_block(b, o, ra) ==
    With(read(b, o, 8), LAMBDA r1 :
        IF r1.exc # "none"
        THEN Raise(r1.bin, r1.exc, <<>>)
        ELSE IF Len(r1.bytes) # 8
        THEN Raise(r1.bin, "struct.error", ReadsOf(r1, 8))
        ELSE walk_entries(b, o, ra, r1))

WalkBlock == pc = "walk" /\ Step(walk_block(bin, ofs, reloc_addrs))

\* A variant that keeps the address of the site instead of the value there.
add_relocated_site(b, addr, bytes) ==
    [b EXCEPT !.relocated_addrs = @ \cup {addr}]

\* self._relocated_addrs.add(relocated_addr), for the 4 bytes read at addr
add_relocated(b, addr, bytes) ==
    [b EXCEPT !.relocated_addrs = @ \cup {unpack_I(bytes)}]

\* One turn of the for loop over the sorted site addresses
read_site(b, o, ra) ==
    With(read(b, Head(ra), 4), LAMBDA r :
        IF r.exc # "none"
        THEN Raise(r.bin, r.exc, <<>>)
        ELSE IF Len(r.bytes) # 4
        THEN Raise(r.bin, "struct.error", ReadsOf(r, 4))
        ELSE Goto(add_relocated(r.bin, Head(ra), r.bytes), "sites", o, Tail(ra),
                  ReadsOf(r, 4)))

ReadSite == pc = "sites" /\ reloc_addrs # <<>> /\ Step(read_site(bin, ofs, reloc_addrs))

\* The end of __enter__: the .text section becomes last_section
find_text(b) ==
    LET i == get_section_by_name(b, TextName)
    IN  IF i = 0
        THEN Raise(b, "SectionNotFoundError", <<>>)
        ELSE Goto([b EXCEPT !.last_section = i], "ready", 0, <<>>, <<>>)

FindText == pc = "sites" /\ reloc_addrs = <<>> /\ Step(find_text(bin))

Enter == EnterOpen \/ EnterHeaders \/ PopulateStart \/ WalkBlock \/ ReadSite \/ FindText

-----------------------------------------------------------------------------
(* Bin.__exit__ *)

\* if self.file: self.file.close().  The with statement calls it after the
\* body of a with whose __enter__ returned.
Exit ==
    /\ pc = "ready"
    /\ bin' = [bin EXCEPT !.file = IF @ = "none" THEN "none" ELSE "closed"]
    /\ pc' = "exited"
    /\ ret' = [NoRet EXCEPT !.op = "exit"]
    /\ UNCHANGED <<disk, exc, ofs, reloc_addrs>>

-----------------------------------------------------------------------------
(* The public queries, called in the body of the with statement: after     *)
(* __enter__ returned and before __exit__.                                  *)

Callable == pc = "ready"

\* Addresses asked about: around the ends of the two data areas.
Vaddrs == {disk.ImageBase + x : x \in {-1, 0, 31, 32, 39, 40}}
Sizes == {0, 1, 4, 10}
Indexes == -1..4
QueryNames == {TextName, RelocName, <<46, 116>>}

Read(vaddr, size) ==
    /\ Callable
    /\ LET r == read(bin, vaddr, size)
       IN  /\ bin' = r.bin
           /\ ret' = [NoRet EXCEPT !.op = "read", !.vaddr = vaddr, !.size = size,
                                   !.exc = r.exc, !.val = Len(r.bytes),
                                   !.list = r.bytes, !.reads = ReadsOf(r, size)]
    /\ UNCHANGED <<disk, pc, exc, ofs, reloc_addrs>>

GetRawAddr(vaddr) ==
    /\ Callable
    /\ LET r == get_raw_addr(bin, vaddr)
       IN  /\ bin' = r.bin
           /\ ret' = [NoRet EXCEPT !.op = "get_raw_addr", !.vaddr = vaddr,
                                   !.exc = r.exc, !.val = r.val]
    /\ UNCHANGED <<disk, pc, exc, ofs, reloc_addrs>>

IsValidVaddr(vaddr) ==
    /\ Callable
    /\ ret' = [NoRet EXCEPT !.op = "is_valid_vaddr", !.vaddr = vaddr,
                            !.ok = is_valid_vaddr(bin, vaddr)]
    /\ UNCHANGED <<disk, bin, pc, exc, ofs, reloc_addrs>>

IsRelocatedAddr(vaddr) ==
    /\ Callable
    /\ ret' = [NoRet EXCEPT !.op = "is_relocated_addr", !.vaddr = vaddr,
                            !.ok = is_relocated_addr(bin, vaddr)]
    /\ UNCHANGED <<disk, bin, pc, exc, ofs, reloc_addrs>>

GetRelocatedAddresses ==
    /\ Callable
    /\ LET r == get_relocated_addresses(bin)
       IN  /\ bin' = r.bin
           /\ ret' = [NoRet EXCEPT !.op = "get_relocated_addresses", !.list = r.list]
    /\ UNCHANGED <<disk, pc, exc, ofs, reloc_addrs>>

GetSectionOffsetByIndex(index) ==
    /\ Callable
    /\ LET r == get_section_offset_by_index(bin, index)
       IN  ret' = [NoRet EXCEPT !.op = "get_section_offset_by_index", !.index = index,
                                !.exc = r.exc, !.val = r.val]
    /\ UNCHANGED <<disk, bin, pc, exc, ofs, reloc_addrs>>

GetSectionOffsetByName(name) ==
    /\ Callable
    /\ LET r == get_section_offset_by_name(bin, name)
       IN  ret' = [NoRet EXCEPT !.op = "get_section_offset_by_name", !.name = name,
                                !.exc = r.exc, !.val = r.val]
    /\ UNCHANGED <<disk, bin, pc, exc, ofs, reloc_addrs>>

Query ==
    \/ \E v \in Vaddrs, n \in Sizes : Read(v, n)
    \/ \E v \in Vaddrs : GetRawAddr(v)
    \/ \E v \in Vaddrs : IsValidVaddr(v)
    \/ \E v \in {2, 257, disk.ImageBase + 32} : IsRelocatedAddr(v)
    \/ GetRelocatedAddresses
    \/ \E i \in Indexes : GetSectionOffsetByIndex(i)
    \/ \E nm \in QueryNames : GetSectionOffsetByName(nm)

-----------------------------------------------------------------------------

Next == Enter \/ Exit \/ Query

Spec == Init /\ [][Next]_vars

\* __enter__ is straight-line sequential code: once called it runs until it
\* returns or raises.
FairSpec == Spec /\ WF_vars(Enter)

-----------------------------------------------------------------------------
(* Notions the properties are stated with *)

\* One past the last file offset of the raw data of a section
RawEnd(section) == section.PointerToRawData + section.SizeOfRawData

\* No virtual address lies in two sections of the table.
NoOverlap(sections) ==
    \A i, j \in 1..Len(sections) :
        i < j =>
            \/ sections[i].SizeOfRawData = 0
            \/ sections[j].SizeOfRawData = 0
            \/ sections[i].VirtualAddress + sections[i].SizeOfRawData
                   <= sections[j].VirtualAddress
            \/ sections[j].VirtualAddress + sections[j].SizeOfRawData
                   <= sections[i].VirtualAddress

\* A lookup that knows no cache: the first section in table order that
\* contains vaddr, and the file offset of vaddr in it.
PlainLookup(b, vaddr) ==
    LET i == first_containing(b.sections, b.imagebase, vaddr)
    IN  IF i = 0
        THEN [exc |-> "InvalidVirtualAddressError", section |-> 0, val |-> 0]
        ELSE [exc |-> "none", section |-> i,
              val |-> vaddr - b.imagebase - b.sections[i].VirtualAddress
                      + b.sections[i].PointerToRawData]

\* The name a section header carries: its 8 bytes without the NUL padding.
RECURSIVE rstrip(_)
rstrip(nm) ==
    IF nm = <<>> \/ nm[Len(nm)] # 0 THEN nm ELSE rstrip(SubSeq(nm, 1, Len(nm) - 1))

-----------------------------------------------------------------------------
(* C1 *)

ReadOfValidVaddr ==
    /\ pc = "ready"
    /\ ret.op = "read"
    /\ is_valid_vaddr(bin, ret.vaddr)

\* C1 as stated: after a successful open, read(v, n) of a valid v and n >= 0
\* raises nothing and returns exactly min(n, end of the owning section's raw
\* data - rawOffset(v)) bytes, none of them at or past that end.
C1_ReadReturnsMinOfSizeAndSection ==
    ReadOfValidVaddr =>
        /\ ret.exc = "none"
        /\ Len(ret.reads) = 1
        /\ LET s == bin.sections[ret.reads[1].section]
               raw == ret.reads[1].raw
           IN  /\ ret.val = Min(ret.size, RawEnd(s) - raw)
               /\ raw + ret.val <= RawEnd(s)

\* C1 amended: read(v, n) of a valid v and n >= 0 raises nothing and returns
\* exactly min(n, end of the resolved section's raw data - rawOffset(v),
\* bytes left in the file from rawOffset(v)) bytes, which are the bytes of
\* the file from rawOffset(v) on, none of them at or past the section's end.
C1_ReadReturnsMinOfSizeSectionAndFile ==
    ReadOfValidVaddr =>
        /\ ret.exc = "none"
        /\ Len(ret.reads) = 1
        /\ LET s == bin.sections[ret.reads[1].section]
               raw == ret.reads[1].raw
           IN  /\ section_contains_vaddr(s, bin.imagebase, ret.vaddr)
               /\ raw = ret.vaddr - bin.imagebase - s.VirtualAddress + s.PointerToRawData
               /\ ret.val = Min(Min(ret.size, RawEnd(s) - raw),
                                Max(0, Len(disk.data) - raw))
               /\ ret.list = SubSeq(disk.data, raw + 1, raw + ret.val)
               /\ raw + ret.val <= RawEnd(s)

\* A read of 10 bytes that starts 1 byte before the end of a section whose
\* data lies in the file, and returns 1 byte.
C1_Witness ==
    /\ ReadOfValidVaddr
    /\ ret.size = 10
    /\ ret.val = 1
    /\ Len(ret.reads) = 1
    /\ ret.reads[1].raw + 1 = RawEnd(bin.sections[ret.reads[1].section])
    /\ RawEnd(bin.sections[ret.reads[1].section]) < Len(disk.data)

-----------------------------------------------------------------------------
(* C2 *)

\* C2 as stated: once a failure of open has reached the caller, no file
\* handle remains open.
C2_HandleReleasedOnFailure == pc = "failed" => bin.file # "open"

-----------------------------------------------------------------------------
(* C3 *)

\* C3 as stated: after a failed open the handle shows no section table, no
\* image base and no relocated address, and no query on it returns a result.
C3_NoPartialStateAfterFailure ==
    pc = "failed" =>
        /\ bin.sections = <<>>
        /\ bin.imagebase = NoImageBase
        /\ bin.relocated_addrs = {}
        /\ \A v \in Vaddrs : ~is_valid_vaddr(bin, v) /\ read(bin, v, 4).exc # "none"
        /\ \A nm \in QueryNames : get_section_offset_by_name(bin, nm).exc # "none"
        /\ \A i \in Indexes : get_section_offset_by_index(bin, i).exc # "none"

-----------------------------------------------------------------------------
(* C4 *)

\* The relocation table as the PE format lays it out in the raw data of the
\* first section named ".reloc", read without the class: blocks from file
\* offset p up to the end of the data the file holds for the section.
RelocIndex == first_named(bin.sections, RelocName)

RelocDataEnd == Min(RawEnd(bin.sections[RelocIndex]), Len(disk.data))

BlockSizeAt(p) == unpack_I(SubSeq(disk.data, p + 5, p + 8))

RECURSIVE WellFormedBlocks(_)
WellFormedBlocks(p) ==
    /\ p + 8 <= RelocDataEnd
    /\ \/ BlockSizeAt(p) = 0
       \/ /\ BlockSizeAt(p) >= 8
          /\ BlockSizeAt(p) % 2 = 0
          /\ p + BlockSizeAt(p) <= RelocDataEnd
          /\ WellFormedBlocks(p + BlockSizeAt(p))

RECURSIVE BlockSites(_)
BlockSites(p) ==
    IF BlockSizeAt(p) = 0 THEN {}
    ELSE LET page_base == unpack_I(SubSeq(disk.data, p + 1, p + 4))
             entries == iter_unpack_H(SubSeq(disk.data, p + 9, p + BlockSizeAt(p)))
         IN  {bin.imagebase + page_base + (entries[k] % 4096) :
                  k \in {j \in DOMAIN entries : entries[j] # 0}}
                 \cup BlockSites(p + BlockSizeAt(p))

\* The 4-byte little-endian value the file stores at a virtual address, -1
\* if the file stores none there.
StoredValue(site) ==
    LET l == PlainLookup(bin, site)
    IN  IF l.exc = "none"
           /\ l.val + 4 <= Min(RawEnd(bin.sections[l.section]), Len(disk.data))
        THEN unpack_I(SubSeq(disk.data, l.val + 1, l.val + 4))
        ELSE -1

WellFormedReloc ==
    /\ RelocIndex # 0
    /\ WellFormedBlocks(bin.sections[RelocIndex].PointerToRawData)

ExpectedRelocated ==
    {StoredValue(site) : site \in BlockSites(bin.sections[RelocIndex].PointerToRawData)}

RelocatedIsExpected ==
    /\ bin.relocated_addrs = ExpectedRelocated
    /\ ret.op = "get_relocated_addresses" =>
           /\ Len(ret.list) = Cardinality(ExpectedRelocated)
           /\ {ret.list[k] : k \in DOMAIN ret.list} = ExpectedRelocated
    /\ ret.op = "is_relocated_addr" => (ret.ok <=> ret.vaddr \in ExpectedRelocated)

\* C4 as stated: for every binary with a well-formed .reloc table, after
\* open the relocated addresses are exactly the values stored at the sites
\* imagebase + page_base + (entry & 0xFFF) of the non-zero entries.
C4_RelocatedAreStoredValues ==
    (pc = "ready" /\ WellFormedReloc) => RelocatedIsExpected

\* C4 amended: the same, for every binary in which no virtual address lies
\* in two sections.
C4_RelocatedAreStoredValuesNoOverlap ==
    (pc = "ready" /\ WellFormedReloc /\ NoOverlap(bin.sections)) => RelocatedIsExpected

\* An open that went through two blocks, one with a zero entry, and kept the
\* two values stored in the file, 2 and 257, not their addresses.
C4_Witness ==
    /\ pc = "ready"
    /\ WellFormedReloc
    /\ NoOverlap(bin.sections)
    /\ BlockSizeAt(bin.sections[RelocIndex].PointerToRawData) = 12
    /\ BlockSizeAt(bin.sections[RelocIndex].PointerToRawData + 12) = 12
    /\ SubSeq(disk.data, bin.sections[RelocIndex].PointerToRawData + 23,
                         bin.sections[RelocIndex].PointerToRawData + 24) = <<0, 0>>
    /\ ret.op = "get_relocated_addresses"
    /\ ret.list = <<2, 257>>

-----------------------------------------------------------------------------
(* C5 *)

IndexAndNameAgree(i) ==
    LET byIndex == get_section_offset_by_index(bin, i)
        byName == get_section_offset_by_name(bin, rstrip(bin.sections[i].Name))
    IN  byIndex.exc = "none" /\ byName.exc = "none" /\ byIndex.val = byName.val

\* C5 as stated: for every 1-based index i of the parsed table,
\* sectionOffsetByIndex(i) = sectionOffsetByName(name of section i).
C5_IndexEqualsName ==
    \A i \in 1..Len(bin.sections) : IndexAndNameAgree(i)

\* C5 amended: the same, for every index i whose section is the first of the
\* table with its name (the lookup by name returns the first match).
C5_IndexEqualsNameOfFirst ==
    \A i \in 1..Len(bin.sections) :
        (\A j \in 1..(i - 1) : bin.sections[j].Name # bin.sections[i].Name)
            => IndexAndNameAgree(i)

\* A lookup by index of the second of three sections, at another address
\* than the first, that returned what the lookup by its name returns.
C5_Witness ==
    /\ pc = "ready"
    /\ Len(bin.sections) = 3
    /\ ret.op = "get_section_offset_by_index"
    /\ ret.index = 2
    /\ bin.sections[2].Name # bin.sections[1].Name
    /\ bin.sections[2].VirtualAddress # bin.sections[1].VirtualAddress
    /\ ret.exc = "none"
    /\ ret.val = get_section_offset_by_name(bin, rstrip(bin.sections[2].Name)).val

-----------------------------------------------------------------------------
(* C6 *)

\* C6 as stated: sectionOffsetByIndex(i) with i outside 1..NumberOfSections
\* fails with SectionNotFound and returns no address.
C6_IndexMissIsSectionNotFound ==
    (ret.op = "get_section_offset_by_index" /\ ret.index \notin 1..Len(bin.sections))
        => ret.exc = "SectionNotFoundError"

-----------------------------------------------------------------------------
(* C7 *)

\* C7: after a successful open no public query changes the relocated
\* addresses, the image base, the section table or the file handle; only
\* last_section may change.
C7_QueriesLeaveParsedStateAlone ==
    [][(pc = "ready" /\ pc' = "ready") =>
          /\ bin'.relocated_addrs = bin.relocated_addrs
          /\ bin'.imagebase = bin.imagebase
          /\ bin'.sections = bin.sections
          /\ bin'.file = bin.file]_vars

\* After queries, one of which failed and emptied last_section, the list of
\* relocated addresses is handed out and the set still holds its two values.
C7_Witness ==
    /\ pc = "ready"
    /\ ret.op = "get_relocated_addresses"
    /\ ret.list = <<2, 257>>
    /\ bin.relocated_addrs = {2, 257}
    /\ bin.last_section = 0

-----------------------------------------------------------------------------
(* C8 *)

\* What a lookup gives with the cache as it is, and what a lookup without a
\* cache gives.
CacheIsTransparent(b) ==
    \A v \in Vaddrs :
        /\ LET g == get_raw_addr(b, v)
               l == PlainLookup(b, v)
           IN  g.exc = l.exc /\ g.val = l.val
        /\ \A n \in Sizes :
              LET r == read(b, v, n)
                  l == PlainLookup(b, v)
              IN  /\ r.exc = l.exc
                  /\ r.exc = "none" =>
                        /\ r.raw = l.val
                        /\ r.bytes = file_read(l.val, Min(n, RawEnd(b.sections[l.section]) - l.val))

HasParsedTable == pc \in {"populate", "walk", "sites", "ready"}

\* C8 as stated: for every section table and every reachable value of
\* last_section, rawOffset(v) and read(v, n) fail with
\* InvalidVirtualAddress if no section contains v and otherwise use the
\* first section in table order that contains v.
C8_CacheIsNotCorrectnessBearing == HasParsedTable => CacheIsTransparent(bin)

\* C8 amended: the same, for every section table in which no virtual
\* address lies in two sections.
C8_CacheIsNotCorrectnessBearingNoOverlap ==
    (HasParsedTable /\ NoOverlap(bin.sections)) => CacheIsTransparent(bin)

\* A table of two disjoint sections after a failed lookup emptied the cache,
\* and such a table with the second section cached.
C8_Witness ==
    /\ pc = "ready"
    /\ Len(bin.sections) = 2
    /\ NoOverlap(bin.sections)
    /\ ret.op = "get_raw_addr"
    /\ ret.exc = "InvalidVirtualAddressError"
    /\ bin.last_section = 0

-----------------------------------------------------------------------------
(* C9 *)

\* C9 as stated: no read issued while open decodes the relocation table
\* returns a byte at a file offset at or past the end of the raw data of the
\* section the read was resolved in.
C9_DecoderReadsStayInSection ==
    ret.op = "enter" =>
        \A k \in DOMAIN ret.reads :
            ret.reads[k].len > 0 =>
                ret.reads[k].raw + ret.reads[k].len
                    <= RawEnd(bin.sections[ret.reads[k].section])

-----------------------------------------------------------------------------
(* C10 *)

\* C10: the block-walking loop terminates: it reaches a block of size 0 or
\* open fails.
C10_WalkTerminates == (pc = "walk") ~> (pc = "sites" \/ pc = "failed")

\* The loop went on after a block whose declared size, 7, is smaller than
\* the header.
C10_Witness ==
    /\ pc = "walk"
    /\ RelocIndex # 0
    /\ ofs = bin.imagebase + bin.sections[RelocIndex].VirtualAddress + 7

====
